---- MODULE Spec2Model ----
(***************************************************************************)
(* The Sapient front end: the four portfolio builder pages (Manual, Auto,  *)
(* CAPM, Fundamentals) and the Stock Analysis page, each a React component *)
(* whose state lives in useState hooks and whose handlers talk to the      *)
(* backend through lib/api.  One page is mounted in a behaviour; its hooks *)
(* are the variables below.  A handler that awaits a request is split at   *)
(* the await: the part before it is one action, the continuation (try,     *)
(* catch and finally together) is another, taken when the backend answers. *)
(* The backend is not part of the front end sources; it is modelled from   *)
(* the specification (sections 4.2, 6 and 7).                              *)
(* Further parts, each with its own specification: the Dashboard and the  *)
(* PortfolioDetail page (price lookups), a row of CAPMBuilder's analysis   *)
(* table, the solve stage of the backend's optimizer, and AuthProvider     *)
(* with the routes and the interceptors of lib/api.                        *)
(***************************************************************************)
EXTENDS Integers, Sequences, FiniteSets, Bags, TLC

(* ---------------------------------------------------------------- bounds *)
MaxInFlight == 1      \* requests awaiting their response at one time
MaxSaves == 2         \* save requests awaiting their response at one time

(* --------------------------------------------------------------- symbols *)
(* A symbol is its text cut into tokens, so that 'BHP.AX' is <<"BHP",      *)
(* ".AX">> and String.replace('.AX', '') can be computed.                  *)
BHP == <<"BHP", ".AX">>
AAPL == <<"AAPL">>
Catalogue == {BHP, AAPL}

Null == [null |-> TRUE]
NoToast == [kind |-> "none", text |-> ""]

BuilderPages == {"manual", "auto", "capm", "fundamentals"}
RiskTolerances == {"conservative", "moderate", "aggressive"}

(* Values typed into an investment amount field: just outside the limits.  *)
AmountInputs == {999, 10000001}

(* ------------------------------------------------------ array operations *)
Includes(seq, x) == \E i \in 1..Len(seq) : seq[i] = x

Filter(seq, x) == SelectSeq(seq, LAMBDA s : s # x)

Elems(seq) == {seq[i] : i \in 1..Len(seq)}

Distinct(seq) == Cardinality(Elems(seq)) = Len(seq)

Slice(seq, n) == IF Len(seq) <= n THEN seq ELSE SubSeq(seq, 1, n)

Permutes(p, seq) ==
    /\ Len(p) = Len(seq)
    /\ \E f \in [1..Len(seq) -> 1..Len(seq)] :
         /\ \A i, j \in 1..Len(seq) : i # j => f[i] # f[j]
         /\ \A i \in 1..Len(seq) : p[i] = seq[f[i]]

(* String.prototype.replace('.AX', ''): the first occurrence is removed.   *)
RECURSIVE ReplaceAX(_)
ReplaceAX(s) ==
    IF s = <<>> THEN <<>>
    ELSE IF Head(s) = ".AX" THEN Tail(s)
    ELSE <<Head(s)>> \o ReplaceAX(Tail(s))

(* symbol + '.AX' *)
PlusAX(s) == s \o <<".AX">>

(* String.prototype.trim on a name of blanks and letters.                  *)
RECURSIVE TrimStart(_)
TrimStart(s) ==
    IF s # <<>> /\ Head(s) = " " THEN TrimStart(Tail(s)) ELSE s

RECURSIVE TrimEnd(_)
TrimEnd(s) ==
    IF s # <<>> /\ s[Len(s)] = " " THEN TrimEnd(SubSeq(s, 1, Len(s) - 1)) ELSE s

NoTrim(s) == s

Trim(s) == TrimEnd(TrimStart(s))

NameInputs == {<<>>, <<" ">>, <<" ", "a", " ">>}

(* !portfolioName.trim() : the empty string is falsy.                      *)
Blank(name) == Trim(name) = <<>>

(* Array.prototype.sort((a, b) => b.weight - a.weight): stable, in place.  *)
RECURSIVE InsertByWeight(_, _)
InsertByWeight(sorted, e) ==
    IF sorted = <<>> THEN <<e>>
    ELSE IF Head(sorted).weight >= e.weight
         THEN <<Head(sorted)>> \o InsertByWeight(Tail(sorted), e)
         ELSE <<e>> \o sorted

RECURSIVE SortByWeightDesc(_)
SortByWeightDesc(seq) ==
    IF seq = <<>> THEN <<>>
    ELSE InsertByWeight(SortByWeightDesc(SubSeq(seq, 1, Len(seq) - 1)), seq[Len(seq)])

(* ------------------------------------------------ risk profiles (doc) *)
MinInvestment == 1000
MaxInvestment == 10000000

ValidAmount(a) == a >= MinInvestment /\ a <= MaxInvestment

MinStocks(risk) ==
    CASE risk = "conservative" -> 4
      [] risk = "moderate" -> 3
      [] risk = "aggressive" -> 2

MaxWeightPctLoose(risk) ==
    CASE risk = "conservative" -> 25
      [] risk = "moderate" -> 40
      [] risk = "aggressive" -> 75

MaxWeightPct(risk) ==
    CASE risk = "conservative" -> 25
      [] risk = "moderate" -> 40
      [] risk = "aggressive" -> 60

(* ------------------------------------------------------------- backend *)
(* The backend answers a request with [ok, stage, detail, data].  stage    *)
(* names how far the call got: "network" (no answer), "validate" (request  *)
(* layer), "fetch" (market data), "precheck" (optimizer, before solving),  *)
(* "solve".                                                                *)
Err(stage, detail) == [ok |-> FALSE, stage |-> stage, detail |-> detail, data |-> Null]

Ok(data) == [ok |-> TRUE, stage |-> "solve", detail |-> "", data |-> data]

OptimizeKinds == {"optimize", "optimizeCAPM", "optimizeFundamentals"}

(* The CAPM endpoints name a stock by the symbol they were sent + '.AX'.   *)
BackendKey(kind, s) == IF kind \in {"optimizeCAPM", "analyzeCAPM"} THEN PlusAX(s) ELSE s

WeightGrid == {20, 25, 30, 40, 60, 75}

RECURSIVE SumSeq(_)
SumSeq(w) == IF w = <<>> THEN 0 ELSE Head(w) + SumSeq(Tail(w))

WeightVectors(n, risk) ==
    {w \in [1..n -> WeightGrid] :
        /\ SumSeq(w) = 100
        /\ \A i \in 1..n : w[i] <= MaxWeightPct(risk)}

(* per_stock is stock_capm_data / stock_fundamentals, the per-stock list    *)
(* of the CAPM and fundamentals results, in the order of the request.      *)
MakeResult(req, w, success) ==
    [weights |-> [k \in {BackendKey(req.kind, req.symbols[i]) : i \in 1..Len(req.symbols)} |->
                    w[CHOOSE i \in 1..Len(req.symbols) : BackendKey(req.kind, req.symbols[i]) = k]],
     optimization_success |-> success,
     per_stock |-> IF req.kind = "optimize" THEN <<>>
                   ELSE [i \in 1..Len(req.symbols) |->
                             [symbol |-> BackendKey(req.kind, req.symbols[i]), weight |-> w[i]]]]

InvalidInput(req) ==
    \/ Len(req.symbols) < 2
    \/ ~Distinct(req.symbols)
    \/ ~ValidAmount(req.investment_amount)

OptimizeResponses(req) ==
    {Err("network", "")} \cup
    IF InvalidInput(req) THEN {Err("validate", "InvalidInput")}
    ELSE {Err("fetch", "DataUnavailable")} \cup
         IF Len(req.symbols) < MinStocks(req.risk_tolerance)
         THEN {Err("precheck", "InsufficientAssets")}
         ELSE {Ok(MakeResult(req, w, s)) :
                  w \in WeightVectors(Len(req.symbols), req.risk_tolerance), s \in BOOLEAN}

(* analyze-capm answers { stocks: { key: data } } for the symbols whose     *)
(* data it could get.                                                      *)
AnalyzeResponses(req) ==
    {Err("network", "")} \cup
    {Ok(K) : K \in SUBSET {BackendKey(req.kind, req.symbols[i]) : i \in 1..Len(req.symbols)}}

(* Lists a fundamentals scan may return, best first.                       *)
ScanLists == {<<>>, <<BHP, AAPL>>}

SimpleResponses == {Err("network", ""), Err("validate", "Server error"), Ok(Null)}

(* err.response?.data?.detail || fallback *)
ErrorText(resp, fallback) == IF resp.detail # "" THEN resp.detail ELSE fallback

ToastError(text) == [kind |-> "error", text |-> text]

ToastSuccess(text) == [kind |-> "success", text |-> text]

(* ----------------------------------------------------------------- state *)
VARIABLES
    page,             \* the page mounted
    selectedStocks,   \* useState<string[]>
    optimizing,       \* busy flag of optimize (building on AutoBuilder)
    result,           \* OptimizationResult | null
    returned,         \* response.data as it was delivered for the current result
    requested,        \* the settings the request of the current result carried
    saving, showSaveModal, portfolioName,
    investmentAmount, riskTolerance, portfolioSize,
    stockData, analyzing,          \* CAPMBuilder
    market, stocks, scanning,      \* FundamentalsBuilder
    symbol, loading, analysis, chartData, latest,   \* StockAnalysis
    inflight,         \* requests awaiting their response, with their closure
    toast,            \* the toast the last handler raised, NoToast if none
    sent,             \* the request the last handler handed to lib/api, Null if none
    portfolios, loadingReturns, totalReturn, totalCurrentValue,   \* Dashboard
    detailData, currentPrices,     \* PortfolioDetail (detailData is its 'data')
    rowData, rowBadges,            \* a row of CAPMBuilder's analysis table
    evaluated,        \* portfolioApi.optimize calls the running AutoBuilder.onSubmit has made
    solver,           \* the backend optimizer's solve stage, one call
    user, authLoading,             \* AuthProvider (authLoading is its 'loading')
    storage,          \* localStorage
    route,            \* the location
    authPhase,        \* AuthProvider: "mounting" until its effect ran, then "ready" or "crashed"
    settled           \* how the last handler settled a lib/api promise for its caller, Null if none

optVars == <<optimizing, result, returned, requested, requested>>
saveVars == <<saving, showSaveModal, portfolioName>>
formVars == <<investmentAmount, riskTolerance, portfolioSize>>
capmVars == <<stockData, analyzing>>
fundVars == <<market, stocks, scanning>>
analysisVars == <<symbol, loading, analysis, chartData, latest>>
builderVars == <<selectedStocks, optVars, saveVars, formVars, capmVars, fundVars>>

holdingsVars == <<portfolios, loadingReturns, totalReturn, totalCurrentValue, detailData, currentPrices>>

(* The state of the pages and modules outside the builders and Stock       *)
(* Analysis.                                                               *)
tableVars == <<rowData, rowBadges>>

authVars == <<user, authLoading, storage, route, authPhase, settled>>

extraVars == <<holdingsVars, tableVars, evaluated, solver, authVars>>

vars == <<page, builderVars, analysisVars, extraVars, inflight, toast, sent>>

(* What a handler of ManualBuilder / AutoBuilder never touches.            *)
others == <<page, capmVars, fundVars, analysisVars, extraVars>>

(* The same, for the steps of AutoBuilder.onSubmit.                        *)
autoOthers == <<page, capmVars, fundVars, analysisVars, holdingsVars, tableVars, solver, authVars>>

CanSend == BagCardinality(inflight) < MaxInFlight

(* savePortfolio may send: as any request may, or, with nothing but saves  *)
(* in flight, while fewer than MaxSaves of them are.                       *)
CanSave ==
    \/ CanSend
    \/ /\ \A r \in BagToSet(inflight) : r.kind = "save"
       /\ BagCardinality(inflight) < MaxSaves

InitHooks(p) ==
    /\ page = p
    /\ selectedStocks = <<>>
    /\ optimizing = FALSE
    /\ result = Null
    /\ returned = Null
    /\ requested = Null
    /\ saving = FALSE
    /\ showSaveModal = FALSE
    /\ portfolioName = <<>>
    /\ investmentAmount = IF p = "manual" THEN 10000 ELSE 50000
    /\ riskTolerance = "moderate"
    /\ portfolioSize = "medium"
    /\ stockData = {}
    /\ analyzing = FALSE
    /\ market = "ASX"
    /\ stocks = <<>>
    /\ scanning = FALSE
    /\ symbol = ""
    /\ loading = (p \in {"dashboard", "detail"})
    /\ analysis = Null
    /\ chartData = Null
    /\ latest = Null
    /\ inflight = EmptyBag
    /\ toast = NoToast
    /\ sent = Null
    /\ portfolios = <<>>
    /\ loadingReturns = FALSE
    /\ totalReturn = Null
    /\ totalCurrentValue = 0
    /\ detailData = Null
    /\ currentPrices = <<>>
    /\ rowData = Null
    /\ rowBadges = Null
    /\ evaluated = 0
    /\ solver = [phase |-> "idle", input |-> Null, start |-> Null, converged |-> <<>>,
                 best |-> <<>>, out |-> Null]

(* The page p is mounted for a user who is logged in.                      *)
InitPage(p) ==
    /\ InitHooks(p)
    /\ user = [id |-> 1]
    /\ authLoading = FALSE
    /\ storage = [token |-> "token-a", user |-> <<"json", [id |-> 1]>>]
    /\ route = "/"
    /\ authPhase = "ready"
    /\ settled = Null

(* ============================================================ requests *)
OptimizeReq(kind, symbols, amount, risk) ==
    [kind |-> kind, symbols |-> symbols,
     investment_amount |-> amount, risk_tolerance |-> risk,
     period |-> IF kind = "optimizeFundamentals" THEN "1y" ELSE "2y"]

(* portfolioApi.save posts { name, optimization_results, investment_amount, *)
(* mode, risk_tolerance }.                                                  *)
SaveReq(name, res, amount, mode, risk) ==
    [kind |-> "save", name |-> name, optimization_results |-> res,
     investment_amount |-> amount, mode |-> mode, risk_tolerance |-> risk]

(* What stays of a save request while it is in flight: the continuation    *)
(* of savePortfolio reads nothing of it.                                   *)
SaveCall == [kind |-> "save"]

Pending(kind) == {r \in BagToSet(inflight) : r.kind = kind}

(* The settings an optimize request carries.                               *)
SettingsOf(req) ==
    [investment_amount |-> req.investment_amount, risk_tolerance |-> req.risk_tolerance]

(* selectedStocks.length < 2 *)
TooFewOne(sel) == Len(sel) < 1

TooFew(sel) == Len(sel) < 2

(* catch: the result state is not touched.                                 *)
ClearedOnError(res) == Null

KeptOnError(res) == res

(* setResult(response.data): the response replaces the state as a whole.   *)
MergedOnSuccess(res, data) ==
    IF res = Null THEN data ELSE [data EXCEPT !.optimization_success = res.optimization_success]

ReplacedOnSuccess(res, data) == data

(* How a handler comes to run: "button" and "enter" are the page's        *)
(* controls, under the conditions the render puts on them; "call" is the   *)
(* handler run where the page offers no enabled control for it, which is   *)
(* where its own guard decides.                                            *)
Vias == {"button", "call"}

SaveVias == {"button", "enter", "call"}

(* ======================================================== ManualBuilder *)
(* The row clicked is a symbol the stock search listed.                    *)
Manual_addStock(s) ==
    /\ page = "manual"
    /\ selectedStocks' = IF ~Includes(selectedStocks, s) THEN Append(selectedStocks, s)
                         ELSE selectedStocks
    /\ toast' = NoToast /\ sent' = Null
    /\ UNCHANGED <<others, optVars, saveVars, formVars, inflight>>

Manual_removeStock(s) ==
    /\ page = "manual"
    /\ Includes(selectedStocks, s)
    /\ selectedStocks' = Filter(selectedStocks, s)
    /\ result' = Null
    /\ returned' = Null
    /\ requested' = Null
    /\ toast' = NoToast /\ sent' = Null
    /\ UNCHANGED <<others, optimizing, saveVars, formVars, inflight>>

Manual_setAmount(a) ==
    /\ page = "manual"
    /\ investmentAmount' = a
    /\ toast' = NoToast /\ sent' = Null
    /\ UNCHANGED <<others, selectedStocks, optVars, saveVars, riskTolerance, portfolioSize, inflight>>

Manual_setRisk(risk) ==
    /\ page = "manual"
    /\ riskTolerance' = risk
    /\ toast' = NoToast /\ sent' = Null
    /\ UNCHANGED <<others, selectedStocks, optVars, saveVars, investmentAmount, portfolioSize, inflight>>

(* The submit button is disabled while optimizing or with fewer than 2     *)
(* stocks; handleSubmit runs onSubmit only when formSchema accepts.        *)
Manual_submitEnabled == ~optimizing /\ Len(selectedStocks) >= 2

Manual_onSubmit(via) ==
    /\ page = "manual"
    /\ via = "button" => Manual_submitEnabled
    /\ via = "call" => Len(selectedStocks) < 2
    /\ ValidAmount(investmentAmount)
    /\ IF TooFew(selectedStocks)
       THEN /\ toast' = ToastError("Please select at least 2 stocks")
            /\ sent' = Null
            /\ UNCHANGED <<optimizing, inflight>>
       ELSE /\ CanSend
            /\ optimizing' = TRUE
            /\ sent' = OptimizeReq("optimize", selectedStocks, investmentAmount, riskTolerance)
            /\ inflight' = inflight (+) SetToBag({sent'})
            /\ toast' = NoToast
    /\ UNCHANGED <<others, selectedStocks, result, returned, requested, saveVars, formVars>>

Manual_optimizeSettled(r, resp) ==
    /\ page = "manual"
    /\ r \in Pending("optimize")
    /\ inflight' = inflight (-) SetToBag({r})
    /\ IF resp.ok
       THEN /\ result' = ReplacedOnSuccess(result, resp.data)
            /\ returned' = resp.data
            /\ requested' = SettingsOf(r)
            /\ toast' = ToastSuccess("Portfolio optimized successfully!")
       ELSE /\ result' = KeptOnError(result)
            /\ toast' = ToastError(ErrorText(resp, "Optimization failed"))
            /\ UNCHANGED <<returned, requested>>
    /\ optimizing' = FALSE
    /\ sent' = Null
    /\ UNCHANGED <<others, selectedStocks, saveVars, formVars>>

Manual_resultShown == ~optimizing /\ result # Null

Manual_modalShown == showSaveModal /\ result # Null

Manual_openSaveModal ==
    /\ page = "manual"
    /\ Manual_resultShown /\ ~saving
    /\ result # Null
    /\ portfolioName' = <<>>
    /\ showSaveModal' = TRUE
    /\ UNCHANGED saving
    /\ toast' = NoToast /\ sent' = Null
    /\ UNCHANGED <<others, selectedStocks, optVars, formVars, inflight>>

Manual_setPortfolioName(name) ==
    /\ page = "manual"
    /\ Manual_modalShown
    /\ portfolioName' = name
    /\ toast' = NoToast /\ sent' = Null
    /\ UNCHANGED <<others, selectedStocks, optVars, saving, showSaveModal, formVars, inflight>>

Manual_cancelSave ==
    /\ page = "manual"
    /\ Manual_modalShown /\ ~saving
    /\ showSaveModal' = FALSE
    /\ toast' = NoToast /\ sent' = Null
    /\ UNCHANGED <<others, selectedStocks, optVars, saving, portfolioName, formVars, inflight>>

Manual_savePortfolio(via) ==
    /\ page = "manual"
    /\ via = "button" => (Manual_modalShown /\ ~saving /\ ~Blank(portfolioName))
    /\ via = "enter" => (Manual_modalShown /\ ~Blank(portfolioName))
    /\ via = "call" => (result = Null \/ Blank(portfolioName))
    /\ IF result = Null \/ Blank(portfolioName)
       THEN /\ sent' = Null
            /\ UNCHANGED <<saving, inflight>>
       ELSE /\ CanSave
            /\ saving' = TRUE
            /\ sent' = SaveReq(Trim(portfolioName), result, investmentAmount,
                              "manual", riskTolerance)
            /\ inflight' = inflight (+) SetToBag({SaveCall})
    /\ toast' = NoToast
    /\ UNCHANGED <<others, selectedStocks, optVars, showSaveModal, portfolioName, formVars>>

Manual_saveSettled(r, resp) ==
    /\ page = "manual"
    /\ r \in Pending("save")
    /\ inflight' = inflight (-) SetToBag({r})
    /\ IF resp.ok
       THEN /\ toast' = ToastSuccess("Portfolio saved successfully!")
            /\ showSaveModal' = FALSE
            /\ portfolioName' = <<>>
       ELSE /\ toast' = ToastError(ErrorText(resp, "Failed to save portfolio"))
            /\ UNCHANGED <<showSaveModal, portfolioName>>
    /\ saving' = FALSE
    /\ sent' = Null
    /\ UNCHANGED <<others, selectedStocks, optVars, formVars>>

ManualNext ==
    \/ \E s \in Catalogue : Manual_addStock(s)
    \/ \E s \in Catalogue : Manual_removeStock(s)
    \/ \E a \in AmountInputs : Manual_setAmount(a)
    \/ \E risk \in RiskTolerances : Manual_setRisk(risk)
    \/ \E via \in Vias : Manual_onSubmit(via)
    \/ \E r \in Pending("optimize") : \E resp \in OptimizeResponses(r) : Manual_optimizeSettled(r, resp)
    \/ Manual_openSaveModal
    \/ \E name \in NameInputs : Manual_setPortfolioName(name)
    \/ Manual_cancelSave
    \/ \E via \in SaveVias : Manual_savePortfolio(via)
    \/ \E r \in Pending("save"), resp \in SimpleResponses : Manual_saveSettled(r, resp)

(* ========================================================== AutoBuilder *)
PORTFOLIO_SIZES ==
    [small |-> [min |-> 5, max |-> 8],
     medium |-> [min |-> 8, max |-> 12],
     large |-> [min |-> 12, max |-> 20]]

(* Math.floor((sizeConfig.min + sizeConfig.max) / 2) *)
TargetSize(size) == (PORTFOLIO_SIZES[size].min + PORTFOLIO_SIZES[size].max) \div 2

(* Lists the ASX200 endpoint may return.                                   *)
AsxLists == {<<>>, <<BHP>>, <<BHP, BHP>>, <<BHP, AAPL>>}

(* [...allStocks].sort(() => Math.random() - 0.5): some permutation.       *)
Shuffled(list) == {p \in [1..Len(list) -> Elems(list)] : Permutes(p, list)}

Auto_setAmount(a) ==
    /\ page = "auto"
    /\ investmentAmount' = a
    /\ toast' = NoToast /\ sent' = Null
    /\ UNCHANGED <<others, selectedStocks, optVars, saveVars, riskTolerance, portfolioSize, inflight>>

Auto_setRisk(risk) ==
    /\ page = "auto"
    /\ riskTolerance' = risk
    /\ toast' = NoToast /\ sent' = Null
    /\ UNCHANGED <<others, selectedStocks, optVars, saveVars, investmentAmount, portfolioSize, inflight>>

Auto_setSize(size) ==
    /\ page = "auto"
    /\ portfolioSize' = size
    /\ toast' = NoToast /\ sent' = Null
    /\ UNCHANGED <<others, selectedStocks, optVars, saveVars, investmentAmount, riskTolerance, inflight>>

(* onSubmit up to the first await; data is the validated form.             *)
Auto_onSubmit ==
    /\ page = "auto"
    /\ ~optimizing
    /\ ValidAmount(investmentAmount)
    /\ CanSend
    /\ optimizing' = TRUE
    /\ sent' = [kind |-> "asx200",
                data |-> [investment_amount |-> investmentAmount,
                          portfolio_size |-> portfolioSize,
                          risk_tolerance |-> riskTolerance]]
    /\ inflight' = inflight (+) SetToBag({sent'})
    /\ toast' = NoToast
    /\ evaluated' = 0
    /\ UNCHANGED <<autoOthers, selectedStocks, result, returned, requested, saveVars, formVars>>

(* From the answer of stocksApi.asx200 to the second await, or the catch.  *)
(* The one portfolioApi.optimize call of the run is made here.             *)
Auto_asx200Settled(r, resp, allStocks, shuffled) ==
    /\ page = "auto"
    /\ r \in Pending("asx200")
    /\ IF resp.ok
       THEN /\ shuffled \in Shuffled(allStocks)
            /\ LET stocksToOptimize == Slice(shuffled, TargetSize(r.data.portfolio_size))
               IN /\ selectedStocks' = stocksToOptimize
                  /\ sent' = OptimizeReq("optimize", stocksToOptimize,
                                         r.data.investment_amount, r.data.risk_tolerance)
            /\ inflight' = (inflight (-) SetToBag({r})) (+) SetToBag({sent'})
            /\ toast' = NoToast
            /\ evaluated' = evaluated + 1
            /\ UNCHANGED optimizing
       ELSE /\ allStocks = <<>> /\ shuffled = <<>>
            /\ inflight' = inflight (-) SetToBag({r})
            /\ toast' = ToastError(ErrorText(resp, "Failed to build portfolio"))
            /\ optimizing' = FALSE
            /\ sent' = Null
            /\ evaluated' = 0
            /\ UNCHANGED selectedStocks
    /\ UNCHANGED <<autoOthers, result, returned, requested, saveVars, formVars>>

(* After the second await: setResult or the catch, then finally; the run  *)
(* is over.                                                                *)
Auto_optimizeSettled(r, resp) ==
    /\ page = "auto"
    /\ r \in Pending("optimize")
    /\ inflight' = inflight (-) SetToBag({r})
    /\ IF resp.ok
       THEN /\ result' = ReplacedOnSuccess(result, resp.data)
            /\ returned' = resp.data
            /\ requested' = SettingsOf(r)
            /\ toast' = ToastSuccess("Portfolio optimized from ${allStocks.length} ASX200 stocks!")
       ELSE /\ result' = KeptOnError(result)
            /\ toast' = ToastError(ErrorText(resp, "Failed to build portfolio"))
            /\ UNCHANGED <<returned, requested>>
    /\ optimizing' = FALSE
    /\ sent' = Null
    /\ evaluated' = 0
    /\ UNCHANGED <<autoOthers, selectedStocks, saveVars, formVars>>

Auto_modalShown == showSaveModal /\ result # Null

Auto_openSaveModal ==
    /\ page = "auto"
    /\ result # Null /\ ~saving
    /\ portfolioName' = <<>>
    /\ showSaveModal' = TRUE
    /\ toast' = NoToast /\ sent' = Null
    /\ UNCHANGED <<others, selectedStocks, optVars, saving, formVars, inflight>>

Auto_setPortfolioName(name) ==
    /\ page = "auto"
    /\ Auto_modalShown
    /\ portfolioName' = name
    /\ toast' = NoToast /\ sent' = Null
    /\ UNCHANGED <<others, selectedStocks, optVars, saving, showSaveModal, formVars, inflight>>

Auto_cancelSave ==
    /\ page = "auto"
    /\ Auto_modalShown /\ ~saving
    /\ showSaveModal' = FALSE
    /\ toast' = NoToast /\ sent' = Null
    /\ UNCHANGED <<others, selectedStocks, optVars, saving, portfolioName, formVars, inflight>>

Auto_savePortfolio(via) ==
    /\ page = "auto"
    /\ via = "button" => (Auto_modalShown /\ ~saving /\ ~Blank(portfolioName))
    /\ via = "enter" => (Auto_modalShown /\ ~Blank(portfolioName))
    /\ via = "call" => (result = Null \/ Blank(portfolioName))
    /\ IF result = Null \/ Blank(portfolioName)
       THEN /\ sent' = Null
            /\ UNCHANGED <<saving, inflight>>
       ELSE /\ CanSave
            /\ saving' = TRUE
            /\ sent' = SaveReq(Trim(portfolioName), result, investmentAmount,
                              "auto", riskTolerance)
            /\ inflight' = inflight (+) SetToBag({SaveCall})
    /\ toast' = NoToast
    /\ UNCHANGED <<others, selectedStocks, optVars, showSaveModal, portfolioName, formVars>>

Auto_saveSettled(r, resp) ==
    /\ page = "auto"
    /\ r \in Pending("save")
    /\ inflight' = inflight (-) SetToBag({r})
    /\ IF resp.ok
       THEN /\ toast' = ToastSuccess("Portfolio saved successfully!")
            /\ showSaveModal' = FALSE
       ELSE /\ toast' = ToastError(ErrorText(resp, "Failed to save portfolio"))
            /\ UNCHANGED showSaveModal
    /\ saving' = FALSE
    /\ sent' = Null
    /\ UNCHANGED <<others, selectedStocks, optVars, portfolioName, formVars>>

AutoNext ==
    \/ \E a \in AmountInputs : Auto_setAmount(a)
    \/ \E risk \in RiskTolerances : Auto_setRisk(risk)
    \/ \E size \in DOMAIN PORTFOLIO_SIZES : Auto_setSize(size)
    \/ Auto_onSubmit
    \/ \E r \in Pending("asx200"), resp \in SimpleResponses, allStocks \in AsxLists :
          \E shuffled \in Shuffled(allStocks) : Auto_asx200Settled(r, resp, allStocks, shuffled)
    \/ \E r \in Pending("optimize") : \E resp \in OptimizeResponses(r) : Auto_optimizeSettled(r, resp)
    \/ Auto_openSaveModal
    \/ \E name \in NameInputs : Auto_setPortfolioName(name)
    \/ Auto_cancelSave
    \/ \E via \in SaveVias : Auto_savePortfolio(via)
    \/ \E r \in Pending("save"), resp \in SimpleResponses : Auto_saveSettled(r, resp)

(* ========================================================== CAPMBuilder *)
(* The row clicked is a symbol the stock search listed; the page adds it   *)
(* as stock.symbol.replace('.AX', '').                                     *)
CAPM_addStock(s) ==
    /\ page = "capm"
    /\ LET sym == ReplaceAX(s)
       IN IF ~Includes(selectedStocks, sym)
          THEN /\ selectedStocks' = Append(selectedStocks, sym)
               /\ result' = Null
               /\ returned' = Null
               /\ requested' = Null
          ELSE UNCHANGED <<selectedStocks, result, returned, requested>>
    /\ toast' = NoToast /\ sent' = Null
    /\ UNCHANGED <<extraVars, page, fundVars, analysisVars, capmVars, optimizing, saveVars, formVars, inflight>>

CAPM_removeStock(sym) ==
    /\ page = "capm"
    /\ Includes(selectedStocks, sym)
    /\ selectedStocks' = Filter(selectedStocks, sym)
    /\ stockData' = stockData \ {sym}
    /\ result' = Null
    /\ returned' = Null
    /\ requested' = Null
    /\ toast' = NoToast /\ sent' = Null
    /\ UNCHANGED <<extraVars, page, fundVars, analysisVars, analyzing, optimizing, saveVars, formVars, inflight>>

CAPM_setAmount(a) ==
    /\ page = "capm"
    /\ investmentAmount' = a
    /\ toast' = NoToast /\ sent' = Null
    /\ UNCHANGED <<extraVars, page, fundVars, analysisVars, capmVars, selectedStocks, optVars, saveVars,
                   riskTolerance, portfolioSize, inflight>>

CAPM_setRisk(risk) ==
    /\ page = "capm"
    /\ riskTolerance' = risk
    /\ result' = Null
    /\ returned' = Null
    /\ requested' = Null
    /\ toast' = NoToast /\ sent' = Null
    /\ UNCHANGED <<extraVars, page, fundVars, analysisVars, capmVars, selectedStocks, optimizing, saveVars,
                   investmentAmount, portfolioSize, inflight>>

CAPM_analyzeStocks(via) ==
    /\ page = "capm"
    /\ via = "button" => (~analyzing /\ Len(selectedStocks) >= 2)
    /\ via = "call" => Len(selectedStocks) < 2
    /\ IF TooFew(selectedStocks)
       THEN /\ toast' = ToastError("Select at least 2 stocks")
            /\ sent' = Null
            /\ UNCHANGED <<analyzing, inflight>>
       ELSE /\ CanSend
            /\ analyzing' = TRUE
            /\ sent' = [kind |-> "analyzeCAPM", symbols |-> selectedStocks]
            /\ inflight' = inflight (+) SetToBag({sent'})
            /\ toast' = NoToast
    /\ UNCHANGED <<extraVars, page, fundVars, analysisVars, stockData, selectedStocks, optVars, saveVars, formVars>>

(* The loop runs over the selectedStocks of the call, which are the        *)
(* symbols of the request.                                                 *)
CAPM_analyzeSettled(r, resp) ==
    /\ page = "capm"
    /\ r \in Pending("analyzeCAPM")
    /\ inflight' = inflight (-) SetToBag({r})
    /\ IF resp.ok
       THEN /\ stockData' = {sym \in Elems(r.symbols) : PlusAX(sym) \in resp.data}
            /\ toast' = ToastSuccess("CAPM analysis complete")
       ELSE /\ toast' = ToastError(ErrorText(resp, "Failed to analyze stocks"))
            /\ UNCHANGED stockData
    /\ analyzing' = FALSE
    /\ sent' = Null
    /\ UNCHANGED <<extraVars, page, fundVars, analysisVars, selectedStocks, optVars, saveVars, formVars>>

CAPM_optimizePortfolio(via) ==
    /\ page = "capm"
    /\ via = "button" => (~optimizing /\ Len(selectedStocks) >= 2)
    /\ via = "call" => Len(selectedStocks) < 2
    /\ IF TooFew(selectedStocks)
       THEN /\ toast' = ToastError("Select at least 2 stocks")
            /\ sent' = Null
            /\ UNCHANGED <<optimizing, inflight>>
       ELSE /\ CanSend
            /\ optimizing' = TRUE
            /\ sent' = OptimizeReq("optimizeCAPM", selectedStocks, investmentAmount, riskTolerance)
            /\ inflight' = inflight (+) SetToBag({sent'})
            /\ toast' = NoToast
    /\ UNCHANGED <<extraVars, page, fundVars, analysisVars, capmVars, selectedStocks, result, returned, requested,
                   saveVars, formVars>>

(* The render that follows setResult sorts result.stock_capm_data in       *)
(* place: the array held by the state is the one that is sorted.           *)
RenderCopy(res) == res

RenderCAPM(res) == [res EXCEPT !.per_stock = SortByWeightDesc(@)]

CAPM_optimizeSettled(r, resp) ==
    /\ page = "capm"
    /\ r \in Pending("optimizeCAPM")
    /\ inflight' = inflight (-) SetToBag({r})
    /\ IF resp.ok
       THEN /\ result' = RenderCAPM(ReplacedOnSuccess(result, resp.data))
            /\ returned' = resp.data
            /\ requested' = SettingsOf(r)
            /\ toast' = ToastSuccess("Portfolio optimized using CAPM!")
       ELSE /\ result' = KeptOnError(result)
            /\ toast' = ToastError(ErrorText(resp, "Failed to optimize portfolio"))
            /\ UNCHANGED <<returned, requested>>
    /\ optimizing' = FALSE
    /\ sent' = Null
    /\ UNCHANGED <<extraVars, page, fundVars, analysisVars, capmVars, selectedStocks, saveVars, formVars>>

CAPM_modalShown == showSaveModal /\ result # Null

CAPM_openSaveModal ==
    /\ page = "capm"
    /\ result # Null
    /\ showSaveModal' = TRUE
    /\ toast' = NoToast /\ sent' = Null
    /\ UNCHANGED <<extraVars, page, fundVars, analysisVars, capmVars, selectedStocks, optVars, saving,
                   portfolioName, formVars, inflight>>

CAPM_setPortfolioName(name) ==
    /\ page = "capm"
    /\ CAPM_modalShown
    /\ portfolioName' = name
    /\ toast' = NoToast /\ sent' = Null
    /\ UNCHANGED <<extraVars, page, fundVars, analysisVars, capmVars, selectedStocks, optVars, saving,
                   showSaveModal, formVars, inflight>>

CAPM_cancelSave ==
    /\ page = "capm"
    /\ CAPM_modalShown /\ ~saving
    /\ showSaveModal' = FALSE
    /\ toast' = NoToast /\ sent' = Null
    /\ UNCHANGED <<extraVars, page, fundVars, analysisVars, capmVars, selectedStocks, optVars, saving,
                   portfolioName, formVars, inflight>>

CAPM_savePortfolio(via) ==
    /\ page = "capm"
    /\ via = "button" => (CAPM_modalShown /\ ~saving /\ ~Blank(portfolioName))
    /\ via = "enter" => (CAPM_modalShown /\ ~Blank(portfolioName))
    /\ via = "call" => (result = Null \/ Blank(portfolioName))
    /\ IF result = Null \/ Blank(portfolioName)
       THEN /\ sent' = Null
            /\ UNCHANGED <<saving, inflight>>
       ELSE /\ CanSave
            /\ saving' = TRUE
            /\ sent' = SaveReq(Trim(portfolioName), result, investmentAmount, "capm", riskTolerance)
            /\ inflight' = inflight (+) SetToBag({SaveCall})
    /\ toast' = NoToast
    /\ UNCHANGED <<extraVars, page, fundVars, analysisVars, capmVars, selectedStocks, optVars, showSaveModal,
                   portfolioName, formVars>>

CAPM_saveSettled(r, resp) ==
    /\ page = "capm"
    /\ r \in Pending("save")
    /\ inflight' = inflight (-) SetToBag({r})
    /\ IF resp.ok
       THEN /\ toast' = ToastSuccess("Portfolio saved!")
            /\ showSaveModal' = FALSE
            /\ portfolioName' = <<>>
       ELSE /\ toast' = ToastError(ErrorText(resp, "Failed to save portfolio"))
            /\ UNCHANGED <<showSaveModal, portfolioName>>
    /\ saving' = FALSE
    /\ sent' = Null
    /\ UNCHANGED <<extraVars, page, fundVars, analysisVars, capmVars, selectedStocks, optVars, formVars>>

CAPMNext ==
    \/ \E s \in Catalogue : CAPM_addStock(s)
    \/ \E sym \in Elems(selectedStocks) : CAPM_removeStock(sym)
    \/ \E a \in AmountInputs : CAPM_setAmount(a)
    \/ \E risk \in RiskTolerances : CAPM_setRisk(risk)
    \/ \E via \in Vias : CAPM_analyzeStocks(via)
    \/ \E r \in Pending("analyzeCAPM") : \E resp \in AnalyzeResponses(r) : CAPM_analyzeSettled(r, resp)
    \/ \E via \in Vias : CAPM_optimizePortfolio(via)
    \/ \E r \in Pending("optimizeCAPM") : \E resp \in OptimizeResponses(r) : CAPM_optimizeSettled(r, resp)
    \/ CAPM_openSaveModal
    \/ \E name \in NameInputs : CAPM_setPortfolioName(name)
    \/ CAPM_cancelSave
    \/ \E via \in SaveVias : CAPM_savePortfolio(via)
    \/ \E r \in Pending("save"), resp \in SimpleResponses : CAPM_saveSettled(r, resp)

(* ================================================== FundamentalsBuilder *)
Markets == {"ASX", "US"}

MarketName(m) == IF m = "US" THEN "S&P 500" ELSE "ASX200"

(* response.data.stocks.slice(0, 15) *)
PreselectCount == 15

Fund_handleMarketChange(newMarket) ==
    /\ page = "fundamentals"
    /\ market' = newMarket
    /\ stocks' = <<>>
    /\ selectedStocks' = <<>>
    /\ result' = Null
    /\ returned' = Null
    /\ requested' = Null
    /\ toast' = NoToast /\ sent' = Null
    /\ UNCHANGED <<extraVars, page, capmVars, analysisVars, scanning, optimizing, saveVars, formVars, inflight>>

Fund_setAmount(a) ==
    /\ page = "fundamentals"
    /\ investmentAmount' = a
    /\ toast' = NoToast /\ sent' = Null
    /\ UNCHANGED <<extraVars, page, capmVars, analysisVars, fundVars, selectedStocks, optVars, saveVars,
                   riskTolerance, portfolioSize, inflight>>

Fund_setRisk(risk) ==
    /\ page = "fundamentals"
    /\ riskTolerance' = risk
    /\ toast' = NoToast /\ sent' = Null
    /\ UNCHANGED <<extraVars, page, capmVars, analysisVars, fundVars, selectedStocks, optVars, saveVars,
                   investmentAmount, portfolioSize, inflight>>

(* A call in flight: what lib/api sent, and the market of the closure,      *)
(* which the continuation reads for its toast.                             *)
WithMarket(req, m) == [f \in DOMAIN req \cup {"market"} |-> IF f = "market" THEN m ELSE req[f]]

(* lib/api sends top_n only: scanFundamentals has no market parameter.     *)
Fund_scanStocks ==
    /\ page = "fundamentals"
    /\ ~scanning
    /\ CanSend
    /\ scanning' = TRUE
    /\ stocks' = <<>>
    /\ selectedStocks' = <<>>
    /\ result' = Null
    /\ returned' = Null
    /\ requested' = Null
    /\ sent' = [kind |-> "scanFundamentals", top_n |-> 30]
    /\ inflight' = inflight (+) SetToBag({WithMarket(sent', market)})
    /\ toast' = NoToast
    /\ UNCHANGED <<extraVars, page, capmVars, analysisVars, market, optimizing, saveVars, formVars>>

Fund_scanSettled(r, resp, list) ==
    /\ page = "fundamentals"
    /\ r \in Pending("scanFundamentals")
    /\ inflight' = inflight (-) SetToBag({r})
    /\ IF resp.ok
       THEN /\ stocks' = list
            /\ selectedStocks' = Slice(list, PreselectCount)
            /\ toast' = ToastSuccess("Scanned " \o MarketName(r.market) \o " stocks")
       ELSE /\ list = <<>>
            /\ toast' = ToastError(ErrorText(resp, "Failed to scan stocks"))
            /\ UNCHANGED <<stocks, selectedStocks>>
    /\ scanning' = FALSE
    /\ sent' = Null
    /\ UNCHANGED <<extraVars, page, capmVars, analysisVars, market, optVars, saveVars, formVars>>

(* The list, the optimize button and the result are rendered only with a   *)
(* scanned list and no scan running.                                       *)
Fund_listShown == Len(stocks) > 0 /\ ~scanning

Fund_toggleStock(sym) ==
    /\ page = "fundamentals"
    /\ Fund_listShown
    /\ Includes(stocks, sym)
    /\ selectedStocks' = IF Includes(selectedStocks, sym) THEN Filter(selectedStocks, sym)
                         ELSE Append(selectedStocks, sym)
    /\ result' = Null
    /\ returned' = Null
    /\ requested' = Null
    /\ toast' = NoToast /\ sent' = Null
    /\ UNCHANGED <<extraVars, page, capmVars, analysisVars, fundVars, optimizing, saveVars, formVars, inflight>>

(* lib/api sends symbols, amount, risk and period: optimizeFundamentals    *)
(* has no market parameter.                                                *)
Fund_optimizePortfolio(via) ==
    /\ page = "fundamentals"
    /\ via = "button" => (Fund_listShown /\ ~optimizing /\ Len(selectedStocks) >= 2)
    /\ via = "call" => Len(selectedStocks) < 2
    /\ IF TooFew(selectedStocks)
       THEN /\ toast' = ToastError("Select at least 2 stocks")
            /\ sent' = Null
            /\ UNCHANGED <<optimizing, inflight>>
       ELSE /\ CanSend
            /\ optimizing' = TRUE
            /\ sent' = OptimizeReq("optimizeFundamentals", selectedStocks, investmentAmount,
                                   riskTolerance)
            /\ inflight' = inflight (+) SetToBag({WithMarket(sent', market)})
            /\ toast' = NoToast
    /\ UNCHANGED <<extraVars, page, capmVars, analysisVars, fundVars, selectedStocks, result, returned, requested,
                   saveVars, formVars>>

Fund_optimizeSettled(r, resp) ==
    /\ page = "fundamentals"
    /\ r \in Pending("optimizeFundamentals")
    /\ inflight' = inflight (-) SetToBag({r})
    /\ IF resp.ok
       THEN /\ result' = RenderCopy(ReplacedOnSuccess(result, resp.data))
            /\ returned' = resp.data
            /\ requested' = SettingsOf(r)
            /\ toast' = ToastSuccess("Portfolio optimized using " \o
                                      (IF r.market = "US" THEN "S&P 500" ELSE "ASX") \o
                                      " fundamentals!")
       ELSE /\ result' = KeptOnError(result)
            /\ toast' = ToastError(ErrorText(resp, "Optimization failed"))
            /\ UNCHANGED <<returned, requested>>
    /\ optimizing' = FALSE
    /\ sent' = Null
    /\ UNCHANGED <<extraVars, page, capmVars, analysisVars, fundVars, selectedStocks, saveVars, formVars>>

Fund_modalShown == showSaveModal /\ result # Null

Fund_openSaveModal ==
    /\ page = "fundamentals"
    /\ Fund_listShown /\ result # Null
    /\ showSaveModal' = TRUE
    /\ toast' = NoToast /\ sent' = Null
    /\ UNCHANGED <<extraVars, page, capmVars, analysisVars, fundVars, selectedStocks, optVars, saving,
                   portfolioName, formVars, inflight>>

Fund_setPortfolioName(name) ==
    /\ page = "fundamentals"
    /\ Fund_modalShown
    /\ portfolioName' = name
    /\ toast' = NoToast /\ sent' = Null
    /\ UNCHANGED <<extraVars, page, capmVars, analysisVars, fundVars, selectedStocks, optVars, saving,
                   showSaveModal, formVars, inflight>>

Fund_cancelSave ==
    /\ page = "fundamentals"
    /\ Fund_modalShown /\ ~saving
    /\ showSaveModal' = FALSE
    /\ toast' = NoToast /\ sent' = Null
    /\ UNCHANGED <<extraVars, page, capmVars, analysisVars, fundVars, selectedStocks, optVars, saving,
                   portfolioName, formVars, inflight>>

Fund_savePortfolio(via) ==
    /\ page = "fundamentals"
    /\ via = "button" => (Fund_modalShown /\ ~saving /\ ~Blank(portfolioName))
    /\ via = "enter" => (Fund_modalShown /\ ~Blank(portfolioName))
    /\ via = "call" => (result = Null \/ Blank(portfolioName))
    /\ IF result = Null \/ Blank(portfolioName)
       THEN /\ sent' = Null
            /\ UNCHANGED <<saving, inflight>>
       ELSE /\ CanSave
            /\ saving' = TRUE
            /\ sent' = SaveReq(Trim(portfolioName), result, investmentAmount, "fundamentals",
                              riskTolerance)
            /\ inflight' = inflight (+) SetToBag({SaveCall})
    /\ toast' = NoToast
    /\ UNCHANGED <<extraVars, page, capmVars, analysisVars, fundVars, selectedStocks, optVars, showSaveModal,
                   portfolioName, formVars>>

Fund_saveSettled(r, resp) ==
    /\ page = "fundamentals"
    /\ r \in Pending("save")
    /\ inflight' = inflight (-) SetToBag({r})
    /\ IF resp.ok
       THEN /\ toast' = ToastSuccess("Portfolio saved successfully!")
            /\ showSaveModal' = FALSE
            /\ portfolioName' = <<>>
       ELSE /\ toast' = ToastError(ErrorText(resp, "Failed to save portfolio"))
            /\ UNCHANGED <<showSaveModal, portfolioName>>
    /\ saving' = FALSE
    /\ sent' = Null
    /\ UNCHANGED <<extraVars, page, capmVars, analysisVars, fundVars, selectedStocks, optVars, formVars>>

FundNext ==
    \/ \E m \in Markets : Fund_handleMarketChange(m)
    \/ \E a \in AmountInputs : Fund_setAmount(a)
    \/ \E risk \in RiskTolerances : Fund_setRisk(risk)
    \/ Fund_scanStocks
    \/ \E r \in Pending("scanFundamentals"), resp \in SimpleResponses, list \in ScanLists :
          Fund_scanSettled(r, resp, list)
    \/ \E sym \in Elems(stocks) : Fund_toggleStock(sym)
    \/ \E via \in Vias : Fund_optimizePortfolio(via)
    \/ \E r \in Pending("optimizeFundamentals") : \E resp \in OptimizeResponses(r) :
          Fund_optimizeSettled(r, resp)
    \/ Fund_openSaveModal
    \/ \E name \in NameInputs : Fund_setPortfolioName(name)
    \/ Fund_cancelSave
    \/ \E via \in SaveVias : Fund_savePortfolio(via)
    \/ \E r \in Pending("save"), resp \in SimpleResponses : Fund_saveSettled(r, resp)

(* ======================================================== StockAnalysis *)
MaxCalls == 3         \* analyze calls issued in one behaviour

(* Texts typed into the symbol field.                                      *)
TypedSymbols == {"", "bhp", "CBA"}

(* String.prototype.toUpperCase on the texts above.                        *)
ToUpperCase(t) == IF t = "bhp" THEN "BHP" ELSE t

(* What the indicator endpoints answer for a symbol: the analysis, and    *)
(* the chart series as parallel arrays.                                   *)
AnalysisOf(sym) == [symbol |-> sym, current_price |-> IF sym = "BHP" THEN 40 ELSE 100]

ChartOf(sym) ==
    [dates |-> <<"d1", "d2">>,
     prices |-> IF sym = "BHP" THEN <<40, 41>> ELSE <<100, 101>>]

IndicatorResponses(req) ==
    {Err("network", ""), Err("fetch", "DataUnavailable"),
     Ok([analysis |-> AnalysisOf(req.symbol), chart |-> ChartOf(req.symbol)])}

(* dates.map((date, i) => ({ date, price: prices[i], ... })) *)
FormatChart(chart) ==
    [i \in 1..Len(chart.dates) |-> [date |-> chart.dates[i], price |-> chart.prices[i]]]

Analysis_setSymbol(t) ==
    /\ page = "analysis"
    /\ symbol' = ToUpperCase(t)
    /\ toast' = NoToast /\ sent' = Null
    /\ UNCHANGED <<extraVars, page, builderVars, loading, analysis, chartData, latest, inflight>>

(* The button is disabled while loading; the Enter key of the field is not. *)
Analysis_analyzeStock(via) ==
    /\ page = "analysis"
    /\ via = "button" => ~loading
    /\ IF symbol = ""
       THEN /\ toast' = ToastError("Please enter a stock symbol")
            /\ sent' = Null
            /\ UNCHANGED <<loading, latest, inflight>>
       ELSE /\ (IF latest = Null THEN 0 ELSE latest.seq) < MaxCalls
            /\ loading' = TRUE
            /\ sent' = [kind |-> "analyze", symbol |-> symbol]
            /\ latest' = [seq |-> (IF latest = Null THEN 0 ELSE latest.seq) + 1,
                          symbol |-> symbol, outcome |-> "pending"]
            /\ inflight' = inflight (+) SetToBag({[kind |-> "analyze", symbol |-> symbol,
                                                   seq |-> latest'.seq]})
            /\ toast' = NoToast
    /\ UNCHANGED <<extraVars, page, builderVars, symbol, analysis, chartData>>

Analysis_analyzeSettled(r, resp) ==
    /\ page = "analysis"
    /\ r \in Pending("analyze")
    /\ inflight' = inflight (-) SetToBag({r})
    /\ IF resp.ok
       THEN /\ analysis' = resp.data.analysis
            /\ chartData' = FormatChart(resp.data.chart)
            /\ toast' = ToastSuccess("Analysis complete!")
       ELSE /\ toast' = ToastError(ErrorText(resp, "Analysis failed"))
            /\ analysis' = Null
            /\ chartData' = Null
    /\ loading' = FALSE
    /\ latest' = IF r.seq = latest.seq
                 THEN [latest EXCEPT !.outcome = IF resp.ok THEN "ok" ELSE "failed"]
                 ELSE latest
    /\ sent' = Null
    /\ UNCHANGED <<extraVars, page, builderVars, symbol>>

AnalysisNext ==
    \/ \E t \in TypedSymbols : Analysis_setSymbol(t)
    \/ \E via \in {"button", "enter"} : Analysis_analyzeStock(via)
    \/ \E r \in Pending("analyze") : \E resp \in IndicatorResponses(r) :
          Analysis_analyzeSettled(r, resp)

(* ======================================= Dashboard and PortfolioDetail *)
(* Both pages load a portfolio's positions and then look up the current    *)
(* price of each symbol, one stocksApi.info call after the other.  Money   *)
(* is in whole dollars.                                                    *)
PortfolioA == [id |-> 1, initial_investment |-> 100]
PortfolioB == [id |-> 2, initial_investment |-> 50]

(* Answers of portfolioApi.list.                                           *)
PortfolioLists == {<<>>, <<PortfolioA>>, <<PortfolioA, PortfolioB>>}

Held(sym, qty, cost, status) ==
    [symbol |-> sym, quantity |-> qty, avg_cost |-> cost, status |-> status]

(* Positions portfolioApi.detail may answer with.                          *)
PositionLists ==
    {<<>>,
     <<Held(BHP, 10, 5, "active")>>,
     <<Held(BHP, 10, 5, "active"), Held(AAPL, 2, 7, "active")>>,
     <<Held(BHP, 10, 5, "active"), Held(AAPL, 2, 7, "closed")>>}

(* current_price values stocksApi.info may answer with.                    *)
PriceInputs == {4, 6}

InfoResponses == {Err("fetch", "DataUnavailable")} \cup {Ok(p) : p \in PriceInputs}

ListResponses == {Err("network", ""), Ok(Null)}

(* positions.filter(pos => pos.status === 'active') *)
ActivePositions(positions) == SelectSeq(positions, LAMBDA pos : pos.status = "active")

(* positions.map(pos => pos.symbol) *)
SymbolsOf(positions) == [i \in 1..Len(positions) |-> positions[i].symbol]

(* prices[symbol] = value *)
SetPrice(prices, sym, value) ==
    [k \in DOMAIN prices \cup {sym} |-> IF k = sym THEN value ELSE prices[k]]

(* try { prices[symbol] = info.data.current_price } catch { prices[symbol] = 0 } *)
PriceFrom(resp) == IF resp.ok THEN resp.data ELSE 0

(* prices[pos.symbol] || Number(pos.avg_cost): a missing or zero price     *)
(* gives the average cost.                                                 *)
PriceOrCost(prices, pos) ==
    IF pos.symbol \in DOMAIN prices /\ prices[pos.symbol] # 0
    THEN prices[pos.symbol]
    ELSE pos.avg_cost

(* The reduce over the active positions: sum + price * quantity.           *)
RECURSIVE ValueOf(_, _)
ValueOf(positions, prices) ==
    IF positions = <<>> THEN 0
    ELSE (IF Head(positions).status = "active"
          THEN PriceOrCost(prices, Head(positions)) * Head(positions).quantity
          ELSE 0) + ValueOf(Tail(positions), prices)

(* The stocksApi.info call for the first of symbols, with what its         *)
(* continuation holds in its closure.                                      *)
InfoCall(symbols, prices, closure) ==
    [kind |-> "info", symbol |-> Head(symbols), rest |-> Tail(symbols),
     prices |-> prices, closure |-> closure]

holdingsOthers == <<builderVars, symbol, analysis, chartData, latest, tableVars, evaluated, solver, authVars>>

(* ---------------------------------------------------------- Dashboard *)
(* useEffect(() => { loadPortfolios() }, []) *)
Dash_loadPortfolios ==
    /\ page = "dashboard"
    /\ loading
    /\ inflight = EmptyBag
    /\ sent' = [kind |-> "list"]
    /\ inflight' = inflight (+) SetToBag({sent'})
    /\ toast' = NoToast
    /\ UNCHANGED <<page, holdingsOthers, loading, holdingsVars>>

(* loadRealReturns at the head of its outer loop: the next portfolio's     *)
(* detail is requested, or, after the last one, the totals are set.        *)
Dash_nextPortfolio(fl, todo, allInvestment, allCurrentValue) ==
    IF todo = <<>>
    THEN /\ totalCurrentValue' = allCurrentValue
         /\ totalReturn' = [value |-> allCurrentValue - allInvestment]
         /\ loadingReturns' = FALSE
         /\ sent' = Null
         /\ inflight' = fl
    ELSE /\ sent' = [kind |-> "detail", id |-> Head(todo).id]
         /\ inflight' = fl (+) SetToBag({[kind |-> "detail", id |-> Head(todo).id,
                                          todo |-> todo,
                                          allInvestment |-> allInvestment,
                                          allCurrentValue |-> allCurrentValue]})
         /\ loadingReturns' = TRUE
         /\ UNCHANGED <<totalReturn, totalCurrentValue>>

(* loadPortfolios after the await; loadRealReturns is started, not awaited. *)
Dash_listSettled(r, resp, list) ==
    /\ page = "dashboard"
    /\ r \in Pending("list")
    /\ loading' = FALSE
    /\ toast' = NoToast
    /\ IF resp.ok
       THEN /\ portfolios' = list
            /\ IF Len(list) > 0
               THEN Dash_nextPortfolio(inflight (-) SetToBag({r}), list, 0, 0)
               ELSE /\ inflight' = inflight (-) SetToBag({r})
                    /\ sent' = Null
                    /\ UNCHANGED <<loadingReturns, totalReturn, totalCurrentValue>>
       ELSE /\ inflight' = inflight (-) SetToBag({r})
            /\ sent' = Null
            /\ UNCHANGED <<portfolios, loadingReturns, totalReturn, totalCurrentValue>>
    /\ UNCHANGED <<page, holdingsOthers, detailData, currentPrices>>

(* loadRealReturns after await portfolioApi.detail(p.id).                  *)
Dash_detailSettled(r, resp, positions) ==
    /\ page = "dashboard"
    /\ r \in Pending("detail")
    /\ toast' = NoToast
    /\ IF resp.ok
       THEN LET invested == r.allInvestment + Head(r.todo).initial_investment
                symbols == SymbolsOf(ActivePositions(positions))
            IN  IF symbols = <<>>
                THEN Dash_nextPortfolio(inflight (-) SetToBag({r}), Tail(r.todo), invested,
                                        r.allCurrentValue + ValueOf(positions, <<>>))
                ELSE /\ sent' = [kind |-> "info", symbol |-> Head(symbols)]
                     /\ inflight' = (inflight (-) SetToBag({r})) (+)
                            SetToBag({InfoCall(symbols, <<>>,
                                               [positions |-> positions, todo |-> r.todo,
                                                allInvestment |-> invested,
                                                allCurrentValue |-> r.allCurrentValue])})
                     /\ UNCHANGED <<loadingReturns, totalReturn, totalCurrentValue>>
       ELSE /\ loadingReturns' = FALSE
            /\ inflight' = inflight (-) SetToBag({r})
            /\ sent' = Null
            /\ UNCHANGED <<totalReturn, totalCurrentValue>>
    /\ UNCHANGED <<page, holdingsOthers, loading, portfolios, detailData, currentPrices>>

(* loadRealReturns after await stocksApi.info(symbol), try and catch.      *)
Dash_infoSettled(r, resp) ==
    /\ page = "dashboard"
    /\ r \in Pending("info")
    /\ toast' = NoToast
    /\ LET prices == SetPrice(r.prices, r.symbol, PriceFrom(resp))
       IN  IF r.rest # <<>>
           THEN /\ sent' = [kind |-> "info", symbol |-> Head(r.rest)]
                /\ inflight' = (inflight (-) SetToBag({r})) (+)
                       SetToBag({InfoCall(r.rest, prices, r.closure)})
                /\ UNCHANGED <<loadingReturns, totalReturn, totalCurrentValue>>
           ELSE Dash_nextPortfolio(inflight (-) SetToBag({r}), Tail(r.closure.todo),
                                   r.closure.allInvestment,
                                   r.closure.allCurrentValue +
                                       ValueOf(r.closure.positions, prices))
    /\ UNCHANGED <<page, holdingsOthers, loading, portfolios, detailData, currentPrices>>

(* "--" of the Current Return card; "Portfolio not found" on the detail    *)
(* page.                                                                   *)
Unavailable == [shown |-> "unavailable"]

(* The spinner: "Fetching prices...".                                      *)
Fetching == [shown |-> "fetching"]

(* portfolios.reduce((sum, p) => sum + Number(p.initial_investment), 0) *)
RECURSIVE TotalInvestment(_)
TotalInvestment(list) ==
    IF list = <<>> THEN 0 ELSE Head(list).initial_investment + TotalInvestment(Tail(list))

(* The Current Return card, the percentage cut to a whole number.          *)
Dash_currentReturn ==
    IF loadingReturns THEN Fetching
    ELSE IF totalReturn # Null
         THEN [shown |-> "value",
               pct |-> IF TotalInvestment(portfolios) > 0
                       THEN (totalReturn.value * 100) \div TotalInvestment(portfolios)
                       ELSE 0]
         ELSE Unavailable

DashNext ==
    \/ Dash_loadPortfolios
    \/ \E r \in Pending("list"), resp \in ListResponses, list \in PortfolioLists :
          Dash_listSettled(r, resp, list)
    \/ \E r \in Pending("detail"), resp \in ListResponses, positions \in PositionLists :
          Dash_detailSettled(r, resp, positions)
    \/ \E r \in Pending("info"), resp \in InfoResponses : Dash_infoSettled(r, resp)

(* ----------------------------------------------------- PortfolioDetail *)
(* useEffect(() => { if (id) loadPortfolio() }, [id]) *)
Detail_loadPortfolio ==
    /\ page = "detail"
    /\ loading
    /\ inflight = EmptyBag
    /\ sent' = [kind |-> "detail", id |-> PortfolioA.id]
    /\ inflight' = inflight (+) SetToBag({sent'})
    /\ toast' = NoToast
    /\ UNCHANGED <<page, holdingsOthers, loading, holdingsVars>>

(* loadPortfolio after the await; loadCurrentPrices is started, not        *)
(* awaited.                                                                *)
Detail_detailSettled(r, resp, positions) ==
    /\ page = "detail"
    /\ r \in Pending("detail")
    /\ loading' = FALSE
    /\ IF resp.ok
       THEN /\ detailData' = [portfolio |-> PortfolioA, positions |-> positions]
            /\ toast' = NoToast
            /\ IF Len(SymbolsOf(positions)) > 0
               THEN /\ sent' = [kind |-> "info", symbol |-> Head(SymbolsOf(positions))]
                    /\ inflight' = (inflight (-) SetToBag({r})) (+)
                           SetToBag({InfoCall(SymbolsOf(positions), <<>>, Null)})
               ELSE /\ sent' = Null
                    /\ inflight' = inflight (-) SetToBag({r})
       ELSE /\ toast' = ToastError("Failed to load portfolio")
            /\ sent' = Null
            /\ inflight' = inflight (-) SetToBag({r})
            /\ UNCHANGED detailData
    /\ UNCHANGED <<page, holdingsOthers, portfolios, loadingReturns, totalReturn,
                   totalCurrentValue, currentPrices>>

(* loadCurrentPrices after await stocksApi.info(symbol), try and catch;    *)
(* setCurrentPrices(prices) after the last symbol.                         *)
Detail_infoSettled(r, resp) ==
    /\ page = "detail"
    /\ r \in Pending("info")
    /\ toast' = NoToast
    /\ LET prices == SetPrice(r.prices, r.symbol, PriceFrom(resp))
       IN  IF r.rest # <<>>
           THEN /\ sent' = [kind |-> "info", symbol |-> Head(r.rest)]
                /\ inflight' = (inflight (-) SetToBag({r})) (+)
                       SetToBag({InfoCall(r.rest, prices, r.closure)})
                /\ UNCHANGED currentPrices
           ELSE /\ sent' = Null
                /\ inflight' = inflight (-) SetToBag({r})
                /\ currentPrices' = prices
    /\ UNCHANGED <<page, holdingsOthers, loading, portfolios, loadingReturns, totalReturn,
                   totalCurrentValue, detailData>>

(* totalValue and totalReturn of the render.                               *)
Detail_totalValue == ValueOf(detailData.positions, currentPrices)

Detail_valueShown ==
    IF loading THEN Fetching
    ELSE IF detailData = Null THEN Unavailable
    ELSE [shown |-> "value", totalValue |-> Detail_totalValue,
          totalReturn |-> Detail_totalValue - detailData.portfolio.initial_investment]

DetailNext ==
    \/ Detail_loadPortfolio
    \/ \E r \in Pending("detail"), resp \in ListResponses, positions \in PositionLists :
          Detail_detailSettled(r, resp, positions)
    \/ \E r \in Pending("info"), resp \in InfoResponses : Detail_infoSettled(r, resp)

(* ================================================ CAPM analysis table *)
(* One row of the CAPM Analysis table: the StockCAPMData of one stock as   *)
(* analyze-capm delivered it (rowData) and the two badge cells the render  *)
(* makes of it (rowBadges).  Alpha is in basis points (0.02 is 200), beta  *)
(* in hundredths (0.8 is 80).                                              *)
AlphaInputs == {-500, -201, -200, -199, -1, 0, 1, 199, 200, 201, 500}
BetaInputs == {-20, 0, 50, 79, 80, 81, 100, 119, 120, 121, 200}

(* The backend's risk category of a beta.                                  *)
RiskCategory(beta) ==
    IF beta < 80 THEN "Defensive"
    ELSE IF beta <= 120 THEN "Neutral"
    ELSE "Aggressive"

getRiskBadgeNoNeutral(category) ==
    CASE category = "Defensive" -> "Defensive"
      [] category = "Aggressive" -> "Aggressive"
      [] OTHER -> ""

(* switch (category): the badge of the three known categories, else null  *)
(* (an empty cell, "").                                                    *)
getRiskBadge(category) ==
    CASE category = "Defensive" -> "Defensive"
      [] category = "Neutral" -> "Neutral"
      [] category = "Aggressive" -> "Aggressive"
      [] OTHER -> ""

getValuationBadgeInclusive(alpha) ==
    IF alpha >= 200 THEN "Undervalued"
    ELSE IF alpha <= -200 THEN "Overvalued"
    ELSE "Fair Value"

(* alpha > 0.02, alpha < -0.02, else *)
getValuationBadge(alpha) ==
    IF alpha > 200 THEN "Undervalued"
    ELSE IF alpha < -200 THEN "Overvalued"
    ELSE "Fair Value"

(* setStockData with the analysis of a stock, and the render of its row.   *)
CAPM_rowRendered(beta, alpha) ==
    /\ page = "capm"
    /\ rowData' = [beta |-> beta, alpha |-> alpha, risk_category |-> RiskCategory(beta)]
    /\ rowBadges' = [valuation |-> getValuationBadge(rowData'.alpha),
                     risk |-> getRiskBadge(rowData'.risk_category)]
    /\ toast' = NoToast
    /\ sent' = Null
    /\ UNCHANGED <<page, builderVars, analysisVars, holdingsVars, evaluated, solver, authVars, inflight>>

TableNext == \E beta \in BetaInputs, alpha \in AlphaInputs : CAPM_rowRendered(beta, alpha)

(* ============================================== Mean-Variance Optimizer *)
(* The solve stage of the backend's optimizer (specification, section      *)
(* 4.2): a first attempt seeded from the equal-weight point, one retry      *)
(* from a randomized feasible point if it does not converge, and the best   *)
(* feasible iterate as the fallback.  solver is the state of one call.      *)
MaxAttempts == 2

(* Candidate set sizes and risk profiles that pass the precheck.           *)
SolveInputs == {in \in [n : 2..3, risk : RiskTolerances] : in.n >= MinStocks(in.risk)}

SolverIdle ==
    [phase |-> "idle", input |-> Null, start |-> Null, converged |-> <<>>,
     best |-> <<>>, out |-> Null]

(* The optimizer is called: the first attempt starts at equal weights.     *)
Solve_begin(in) ==
    /\ page = "optimizer"
    /\ solver.phase \in {"idle", "done"}
    /\ solver' = [SolverIdle EXCEPT !.phase = "solving", !.input = in,
                                !.start = [kind |-> "equal"]]
    /\ toast' = NoToast /\ sent' = Null
    /\ UNCHANGED <<page, builderVars, analysisVars, holdingsVars, tableVars, evaluated, authVars, inflight>>

SolveAgainTwice(converged) == Len(converged) < MaxAttempts + 1

(* Non-convergence is answered by another attempt while fewer than         *)
(* MaxAttempts attempts were made.                                         *)
SolveAgain(converged) == Len(converged) < MaxAttempts

(* One run of the solver from solver.start ends: it converged to iterate,  *)
(* or it stopped without converging with iterate as its best feasible      *)
(* point; restart is the randomized feasible point of a retry.             *)
Solve_attempt(conv, iterate, restart) ==
    /\ page = "optimizer"
    /\ solver.phase = "solving"
    /\ LET converged == Append(solver.converged, conv)
           best == IF solver.best = <<>> \/ conv THEN iterate ELSE solver.best
       IN  solver' =
               IF conv
               THEN [solver EXCEPT !.phase = "done", !.converged = converged, !.best = best,
                                   !.out = [weights |-> iterate, optimization_success |-> TRUE]]
               ELSE IF SolveAgain(converged)
               THEN [solver EXCEPT !.converged = converged, !.best = best,
                                   !.start = [kind |-> "random", point |-> restart]]
               ELSE [solver EXCEPT !.phase = "done", !.converged = converged, !.best = best,
                                   !.out = [weights |-> best, optimization_success |-> FALSE]]
    /\ toast' = NoToast /\ sent' = Null
    /\ UNCHANGED <<page, builderVars, analysisVars, holdingsVars, tableVars, evaluated, authVars, inflight>>

SolverNext ==
    \/ \E in \in SolveInputs : Solve_begin(in)
    \/ /\ solver.phase = "solving"
       /\ \E conv \in BOOLEAN :
             \E iterate \in WeightVectors(solver.input.n, solver.input.risk),
                restart \in WeightVectors(solver.input.n, solver.input.risk) :
                 Solve_attempt(conv, iterate, restart)

(* ======================================== AuthProvider, routes, lib/api *)
(* localStorage is a record of its two entries; an absent entry is the     *)
(* empty text, which every reader in the code treats like null (both are   *)
(* falsy).  The text of the user entry is <<"json", value>> when it is the *)
(* JSON of value, and <<"garbage">> when it is not JSON.                   *)
UserA == [id |-> 1]

TokenA == "token-a"

JSONstringify(value) == <<"json", value>>

(* JSON.parse: the value, or a SyntaxError.                                *)
JSONparse(text) ==
    IF text # <<>> /\ text[1] = "json" THEN [ok |-> TRUE, value |-> text[2]]
    ELSE [ok |-> FALSE, value |-> Null]

(* What localStorage may hold when the application is opened.              *)
StorageInputs ==
    [token : {"", TokenA}, user : {<<>>, JSONstringify(UserA), <<"garbage">>}]

AppRoutes == {"/", "/login", "/register"}

ProtectedRouteNoSpinner(ld, u) ==
    IF u = Null THEN "redirect" ELSE "content"

(* ProtectedRoute: the spinner while loading, <Navigate to="/login"> with  *)
(* no user, the children otherwise.                                        *)
ProtectedRoute(ld, u) ==
    IF ld THEN "spinner"
    ELSE IF u = Null THEN "redirect" ELSE "content"

(* The location after the routes rendered at location to.                  *)
Routed(to, ld, u) ==
    IF to = "/" /\ ProtectedRoute(ld, u) = "redirect" THEN "/login" ELSE to

(* What the application shows.                                             *)
View ==
    IF authPhase = "crashed" THEN "nothing"
    ELSE IF route = "/" THEN ProtectedRoute(authLoading, user)
    ELSE route

(* The request interceptor: Authorization: Bearer <token> if a token is    *)
(* stored.                                                                 *)
Authorization(st) == IF st.token # "" THEN <<"Bearer", st.token>> ELSE <<>>

ApiRequest(kind) == [kind |-> kind, authorization |-> Authorization(storage)]

RemoveTokenOnly(st) == [st EXCEPT !.token = ""]

(* removeItem('token'); removeItem('user') *)
RemoveSession(st) == [st EXCEPT !.token = "", !.user = <<>>]

authOthers == <<builderVars, analysisVars, holdingsVars, tableVars, evaluated, solver>>

(* AuthProvider's useEffect.  JSON.parse throws on a user entry that is    *)
(* not JSON: the effect ends there and the application is torn down.       *)
Auth_mountEffect ==
    /\ page = "app"
    /\ authPhase = "mounting"
    /\ IF storage.user # <<>> /\ storage.token # ""
       THEN IF JSONparse(storage.user).ok
            THEN /\ user' = JSONparse(storage.user).value
                 /\ authLoading' = FALSE
                 /\ authPhase' = "ready"
            ELSE /\ authPhase' = "crashed"
                 /\ UNCHANGED <<user, authLoading>>
       ELSE /\ authLoading' = FALSE
            /\ authPhase' = "ready"
            /\ UNCHANGED user
    /\ route' = IF authPhase' = "crashed" THEN route ELSE Routed(route, authLoading', user')
    /\ toast' = NoToast /\ sent' = Null /\ settled' = Null
    /\ UNCHANGED <<page, authOthers, storage, inflight>>

(* A link or the address bar.                                              *)
Auth_navigate(to) ==
    /\ page = "app"
    /\ authPhase = "ready"
    /\ route' = Routed(to, authLoading, user)
    /\ toast' = NoToast /\ sent' = Null /\ settled' = Null
    /\ UNCHANGED <<page, authOthers, user, authLoading, storage, authPhase, inflight>>

(* Login.onSubmit / Register.onSubmit up to the await inside login /       *)
(* register.                                                               *)
Auth_signIn(kind) ==
    /\ page = "app"
    /\ authPhase = "ready"
    /\ route = (IF kind = "login" THEN "/login" ELSE "/register")
    /\ CanSend
    /\ sent' = ApiRequest(kind)
    /\ inflight' = inflight (+) SetToBag({sent'})
    /\ toast' = NoToast /\ settled' = Null
    /\ UNCHANGED <<page, authOthers, user, authLoading, storage, route, authPhase>>

(* The response interceptor on status 401, then window.location.href =     *)
(* '/login' reloading the application; the rejection goes to the caller.   *)
Auth_unauthorized(r) ==
    /\ storage' = RemoveSession(storage)
    /\ settled' = [request |-> r, outcome |-> "rejected"]
    /\ route' = "/login"
    /\ user' = Null
    /\ authLoading' = TRUE
    /\ authPhase' = "mounting"
    /\ inflight' = EmptyBag
    /\ sent' = Null

(* login / register after the await, and the rest of onSubmit.             *)
Auth_signInSettled(r, status) ==
    /\ page = "app"
    /\ r \in Pending("login") \cup Pending("register")
    /\ CASE status = 200 ->
              /\ storage' = [token |-> TokenA, user |-> JSONstringify(UserA)]
              /\ user' = UserA
              /\ toast' = ToastSuccess(IF r.kind = "login" THEN "Welcome back!"
                                       ELSE "Account created successfully!")
              /\ route' = Routed("/", authLoading, user')
              /\ settled' = [request |-> r, outcome |-> "fulfilled"]
              /\ inflight' = inflight (-) SetToBag({r})
              /\ sent' = Null
              /\ UNCHANGED <<authLoading, authPhase>>
         [] status = 401 ->
              /\ Auth_unauthorized(r)
              /\ toast' = ToastError(IF r.kind = "login" THEN "Login failed"
                                     ELSE "Registration failed")
         [] OTHER ->
              /\ toast' = ToastError(IF r.kind = "login" THEN "Login failed"
                                     ELSE "Registration failed")
              /\ settled' = [request |-> r, outcome |-> "rejected"]
              /\ inflight' = inflight (-) SetToBag({r})
              /\ sent' = Null
              /\ UNCHANGED <<user, authLoading, storage, route, authPhase>>
    /\ UNCHANGED <<page, authOthers>>

(* Layout.handleLogout: logout(), navigate('/login').                      *)
Auth_logout ==
    /\ page = "app"
    /\ View = "content"
    /\ storage' = RemoveSession(storage)
    /\ user' = Null
    /\ route' = "/login"
    /\ toast' = NoToast /\ sent' = Null /\ settled' = Null
    /\ UNCHANGED <<page, authOthers, authLoading, authPhase, inflight>>

(* A page under Layout calls the backend through lib/api.                  *)
Auth_apiCall ==
    /\ page = "app"
    /\ View = "content"
    /\ CanSend
    /\ sent' = ApiRequest("api")
    /\ inflight' = inflight (+) SetToBag({sent'})
    /\ toast' = NoToast /\ settled' = Null
    /\ UNCHANGED <<page, authOthers, user, authLoading, storage, route, authPhase>>

Auth_apiSettled(r, status) ==
    /\ page = "app"
    /\ r \in Pending("api")
    /\ toast' = NoToast
    /\ IF status = 401
       THEN Auth_unauthorized(r)
       ELSE /\ settled' = [request |-> r,
                           outcome |-> IF status = 200 THEN "fulfilled" ELSE "rejected"]
            /\ inflight' = inflight (-) SetToBag({r})
            /\ sent' = Null
            /\ UNCHANGED <<user, authLoading, storage, route, authPhase>>
    /\ UNCHANGED <<page, authOthers>>

Statuses == {200, 401, 500}

AuthNext ==
    \/ Auth_mountEffect
    \/ \E to \in AppRoutes : Auth_navigate(to)
    \/ \E kind \in {"login", "register"} : Auth_signIn(kind)
    \/ \E r \in Pending("login") \cup Pending("register"), status \in Statuses :
          Auth_signInSettled(r, status)
    \/ Auth_logout
    \/ Auth_apiCall
    \/ \E r \in Pending("api"), status \in Statuses : Auth_apiSettled(r, status)

(* The application is opened at some location with some localStorage.      *)
AuthInit ==
    /\ InitHooks("app")
    /\ user = Null
    /\ authLoading = TRUE
    /\ authPhase = "mounting"
    /\ settled = Null
    /\ storage \in StorageInputs
    /\ route \in AppRoutes

(* ------------------------------------------------------- specifications *)
BuilderNext == ManualNext \/ AutoNext \/ CAPMNext \/ FundNext

SpecBuilders == (\E p \in BuilderPages : InitPage(p)) /\ [][BuilderNext]_vars

SpecAnalysis == InitPage("analysis") /\ [][AnalysisNext]_vars

HoldingsNext == DashNext \/ DetailNext

SpecAuth == AuthInit /\ [][AuthNext]_vars

(* React runs the effect of a mounted component.                           *)
SpecAuthLive == SpecAuth /\ WF_vars(Auth_mountEffect)

SpecOptimizer == InitPage("optimizer") /\ [][SolverNext]_vars

SpecCAPMTable == InitPage("capm") /\ [][TableNext]_vars

SpecHoldings == (\E p \in {"dashboard", "detail"} : InitPage(p)) /\ [][HoldingsNext]_vars

(* =============================================================== claims *)
PendingOptimize == {r \in BagToSet(inflight) : r.kind \in OptimizeKinds}

(* The call r leaves the requests in flight: its answer is taken.          *)
Answered(r) == inflight' = inflight (-) SetToBag({r})

(* The continuation of an optimize call r runs on the answer resp.         *)
OptimizeSettled(r, resp) ==
    \/ Manual_optimizeSettled(r, resp)
    \/ Auto_optimizeSettled(r, resp)
    \/ CAPM_optimizeSettled(r, resp)
    \/ Fund_optimizeSettled(r, resp)

(* An optimize handler, or the CAPM analyze handler, runs.                 *)
OptimizeTriggered ==
    \E via \in Vias :
        \/ Manual_onSubmit(via)
        \/ CAPM_analyzeStocks(via)
        \/ CAPM_optimizePortfolio(via)
        \/ Fund_optimizePortfolio(via)

(* C1: on ManualBuilder, CAPMBuilder and FundamentalsBuilder, a run of the *)
(* optimize handler (or of the CAPM analyze handler) with fewer than 2     *)
(* symbols selected sends no request, leaves the busy flags and the result *)
(* as they were, and raises an error toast and nothing else.               *)
C1_NoRequestBelowTwoSymbols ==
    [][(Len(selectedStocks) < 2 /\ OptimizeTriggered) =>
          /\ sent' = Null
          /\ inflight' = inflight
          /\ optimizing' = optimizing
          /\ analyzing' = analyzing
          /\ result' = result
          /\ toast'.kind = "error"]_vars

C1_Witness ==
    /\ toast \in {ToastError("Please select at least 2 stocks"),
                  ToastError("Select at least 2 stocks")}
    /\ Len(selectedStocks) = 1
    /\ ~optimizing /\ ~analyzing
    /\ inflight = EmptyBag

(* C2: every optimize request a builder page sends carries an investment   *)
(* amount between 1,000 and 10,000,000 inclusive.                          *)
C2_AmountWithinBounds ==
    (sent # Null /\ sent.kind \in OptimizeKinds) =>
        (sent.investment_amount >= 1000 /\ sent.investment_amount <= 10000000)

(* C3: an optimize call with fewer symbols than the minimum stock count of *)
(* its risk profile never succeeds: it fails before the solve stage, with  *)
(* InsufficientAssets when it gets as far as the optimizer, and the page   *)
(* keeps the result it had and shows an error.                             *)
C3_InsufficientAssetsBeforeSolving ==
    [][\A r \in PendingOptimize :
          (Len(r.symbols) < MinStocks(r.risk_tolerance) /\ Answered(r)) =>
          \A resp \in OptimizeResponses(r) :
              OptimizeSettled(r, resp) =>
              /\ ~resp.ok
              /\ resp.stage # "solve"
              /\ resp.stage = "precheck" => resp.detail = "InsufficientAssets"
              /\ result' = result
              /\ toast'.kind = "error"]_vars

C3_Witness == toast = ToastError("InsufficientAssets") /\ result # Null

(* C4: every symbol of an optimize or CAPM analyze request is a symbol as  *)
(* the stock search lists it, exchange suffix included.                    *)
C4_SymbolsAsSearchReturned ==
    (sent # Null /\ sent.kind \in OptimizeKinds \cup {"analyzeCAPM"}) =>
        \A i \in 1..Len(sent.symbols) : sent.symbols[i] \in Catalogue

(* C5: the symbol list AutoBuilder sends to optimize has at least 2        *)
(* symbols, all distinct.                                                  *)
C5_AutoSendsTwoDistinct ==
    (page = "auto" /\ sent # Null /\ sent.kind = "optimize") =>
        (Len(sent.symbols) >= 2 /\ Distinct(sent.symbols))

(* What the result block of a builder page shows of a result: the fields   *)
(* its JSX reads.                                                          *)
ResultBlock(res) == [weights |-> res.weights, per_stock |-> res.per_stock]

(* C6: a result with optimization_success = false is shown differently     *)
(* from the same result with optimization_success = true.                  *)
C6_CaveatDistinguishes ==
    (result # Null /\ ~result.optimization_success) =>
        ResultBlock(result) # ResultBlock([result EXCEPT !.optimization_success = TRUE])

(* The result a page holds is the response: the very value on              *)
(* ManualBuilder, AutoBuilder and FundamentalsBuilder; on CAPMBuilder the  *)
(* same fields and the same per-stock entries, whose order is the subject  *)
(* of C8.                                                                  *)
SameResult(a, b) ==
    IF page = "capm"
    THEN /\ a.weights = b.weights
         /\ a.optimization_success = b.optimization_success
         /\ Permutes(a.per_stock, b.per_stock)
    ELSE a = b

(* C7: the continuation of an optimize call either stores the response as  *)
(* the result, nothing of the former result left in it, and raises a       *)
(* success toast, or raises an error toast and leaves the result as it     *)
(* was.                                                                    *)
C7_ResultReplacedOrKept ==
    [][\A r \in PendingOptimize :
          Answered(r) =>
          \A resp \in OptimizeResponses(r) :
              OptimizeSettled(r, resp) =>
              \/ /\ resp.ok
                 /\ SameResult(result', resp.data)
                 /\ toast'.kind = "success"
              \/ /\ ~resp.ok
                 /\ result' = result
                 /\ toast'.kind = "error"]_vars

C7_Witness ==
    /\ toast = ToastSuccess("Portfolio optimized successfully!")
    /\ result # Null
    /\ result = returned
    /\ ~optimizing

(* C8: the result a save request carries is the result the optimize call   *)
(* returned, the order of the per-stock list included.                     *)
C8_SavedAsReturned ==
    (sent # Null /\ sent.kind = "save") => sent.optimization_results = returned

AllBlank(name) == \A i \in 1..Len(name) : name[i] = " "

SaveTriggered ==
    \E via \in SaveVias :
        \/ Manual_savePortfolio(via)
        \/ Auto_savePortfolio(via)
        \/ CAPM_savePortfolio(via)
        \/ Fund_savePortfolio(via)

(* C9: a run of savePortfolio with no result or a name of blanks only      *)
(* sends nothing; otherwise the request carries the page's result, which   *)
(* an optimize call delivered, a name that is not blank, and the mode tag  *)
(* of the page.                                                            *)
C9_SaveRequestWellFormed ==
    [][SaveTriggered =>
          IF result = Null \/ AllBlank(portfolioName)
          THEN sent' = Null /\ inflight' = inflight
          ELSE /\ sent'.kind = "save"
               /\ sent'.optimization_results = result
               /\ returned # Null
               /\ ~AllBlank(sent'.name)
               /\ sent'.mode = page]_vars

C9_Witness ==
    /\ sent # Null
    /\ sent.kind = "save"
    /\ sent.name = <<"a">>
    /\ portfolioName = <<" ", "a", " ">>
    /\ sent.mode = page

(* C10: once every analyze call has settled, StockAnalysis shows the       *)
(* analysis and the chart of the call issued last, or nothing if that call *)
(* failed.                                                                 *)
C10_LatestCallShown ==
    (page = "analysis" /\ inflight = EmptyBag /\ latest # Null) =>
        IF latest.outcome = "ok"
        THEN /\ analysis = AnalysisOf(latest.symbol)
             /\ chartData = FormatChart(ChartOf(latest.symbol))
        ELSE analysis = Null /\ chartData = Null

(* The continuation of a price lookup r runs on the answer resp.           *)
InfoSettled(r, resp) == Dash_infoSettled(r, resp) \/ Detail_infoSettled(r, resp)

(* The lookup answered now, or one before it in the same loop, failed.     *)
LookupFailed(r, resp) == ~resp.ok \/ \E k \in DOMAIN r.prices : r.prices[k] = 0

(* Current value and return as the page mounted shows them.                *)
ValueShown == IF page = "dashboard" THEN Dash_currentReturn ELSE Detail_valueShown

(* C11: when a price lookup of the Dashboard or of PortfolioDetail fails,  *)
(* the page does not go on to show a current value or return computed     *)
(* with a substitute price: it shows the value as unavailable (or as still *)
(* being fetched while lookups remain).                                    *)
C11_PriceFailurePropagated ==
    [][\A r \in Pending("info"), resp \in InfoResponses :
          (InfoSettled(r, resp) /\ LookupFailed(r, resp)) =>
          ValueShown' \in {Unavailable, Fetching}]_vars

(* C12: the valuation cell of a row is Undervalued when alpha is above     *)
(* +2%, Overvalued when alpha is below -2%, and Fair Value otherwise, so   *)
(* at exactly +2% and at exactly -2% it is Fair Value.                     *)
C12_ValuationTag ==
    rowBadges # Null =>
        /\ rowBadges.valuation \in {"Undervalued", "Overvalued", "Fair Value"}
        /\ rowBadges.valuation = "Undervalued" <=> rowData.alpha > 200
        /\ rowBadges.valuation = "Overvalued" <=> rowData.alpha < -200
        /\ rowBadges.valuation = "Fair Value" <=> (-200 <= rowData.alpha /\ rowData.alpha <= 200)

C12_Witness == rowBadges # Null /\ rowData.alpha = 200 /\ rowBadges.valuation = "Fair Value"

(* C13: the risk cell of a row is one of the three categories, by the      *)
(* row's beta: Defensive below 0.8, Neutral from 0.8 to 1.2, Aggressive    *)
(* above 1.2.                                                              *)
C13_RiskCategoryShown ==
    rowBadges # Null =>
        /\ rowBadges.risk \in {"Defensive", "Neutral", "Aggressive"}
        /\ rowBadges.risk = "Defensive" <=> rowData.beta < 80
        /\ rowBadges.risk = "Neutral" <=> (80 <= rowData.beta /\ rowData.beta <= 120)
        /\ rowBadges.risk = "Aggressive" <=> rowData.beta > 120

C13_Witness == rowBadges # Null /\ rowData.beta = 120 /\ rowBadges.risk = "Neutral"

(* "Tests 50+ stock combinations".                                         *)
MinCombinations == 50

(* C14: a run of AutoBuilder that ends with a result has evaluated at      *)
(* least 50 stock combinations, i.e. has made that many optimize calls,    *)
(* before it sets the result.                                              *)
C14_AutoEvaluatesFifty ==
    [][\A r \in Pending("optimize") : (page = "auto" /\ Answered(r)) =>
          \A resp \in OptimizeResponses(r) :
              (Auto_optimizeSettled(r, resp) /\ resp.ok) => evaluated >= MinCombinations]_vars

(* C15: the optimize request of an AutoBuilder run names a number of       *)
(* stocks within the range of the portfolio size submitted.                *)
C15_AutoCountWithinSize ==
    [][\A r \in Pending("asx200") :
          (page = "auto" /\ sent' # Null /\ sent'.kind = "optimize") =>
              /\ Len(sent'.symbols) >= PORTFOLIO_SIZES[r.data.portfolio_size].min
              /\ Len(sent'.symbols) <= PORTFOLIO_SIZES[r.data.portfolio_size].max]_vars

(* The sum of the weights of a result, in percent.                         *)
RECURSIVE SumOver(_, _)
SumOver(w, keys) ==
    IF keys = {} THEN 0
    ELSE LET k == CHOOSE x \in keys : TRUE IN w[k] + SumOver(w, keys \ {k})

(* The maximum per stock of each risk profile, in percent.                 *)
ClaimedMaxPct(risk) ==
    CASE risk = "conservative" -> 25
      [] risk = "moderate" -> 40
      [] risk = "aggressive" -> 60

WeightsValid(w, risk) ==
    /\ SumOver(w, DOMAIN w) = 100
    /\ \A k \in DOMAIN w : 0 <= w[k] /\ w[k] <= ClaimedMaxPct(risk)

C17_RetryOnceThenFallback ==
    /\ Len(solver.converged) <= 2
    /\ (solver.phase = "solving" /\ Len(solver.converged) = 1) =>
           (~solver.converged[1] /\ solver.start.kind = "random")
    /\ solver.phase = "done" =>
           /\ solver.out # Null
           /\ solver.out.weights \in WeightVectors(solver.input.n, solver.input.risk)
           /\ Len(solver.converged) \in {1, 2}
           /\ Len(solver.converged) = 2 => ~solver.converged[1]
           /\ solver.out.optimization_success = solver.converged[Len(solver.converged)]
           /\ ~solver.out.optimization_success <=>
                  (Len(solver.converged) = 2 /\ ~solver.converged[1] /\ ~solver.converged[2])
           /\ ~solver.out.optimization_success => solver.out.weights = solver.best

C17_Witness ==
    /\ solver.phase = "done"
    /\ solver.converged = <<FALSE, FALSE>>
    /\ ~solver.out.optimization_success

(* C18: the protected content is shown only with a user; while the auth    *)
(* state is loading the protected location shows the spinner, neither the  *)
(* content nor the redirect; with loading over and no user the location    *)
(* is not a protected one any more: the redirect to /login was made.       *)
C18_ProtectedContentNeedsUser ==
    /\ View = "content" => (user # Null /\ ~authLoading)
    /\ (route = "/" /\ authLoading /\ authPhase # "crashed") => View = "spinner"
    /\ (~authLoading /\ user = Null) => route \in {"/login", "/register"}

C18_Witness == View = "content" /\ user = UserA

(* C19: after AuthProvider mounts its loading flag becomes false, whatever *)
(* localStorage holds, and its effect restores a user only when both the   *)
(* user entry and the token are stored.                                    *)
C19_LoadingEnds ==
    /\ (authPhase = "mounting") ~> ~authLoading
    /\ [][(Auth_mountEffect /\ user' # Null) =>
              (storage.user # <<>> /\ storage.token # "")]_vars

(* The session entries of localStorage are gone.                           *)
SessionCleared(st) == st.token = "" /\ st.user = <<>>

(* A response with status 401 is handled.                                  *)
UnauthorizedSettled(r) == Auth_signInSettled(r, 401) \/ Auth_apiSettled(r, 401)

(* C20: logout and every 401 response leave neither the token nor the user *)
(* entry in localStorage; a request carries an Authorization header only   *)
(* while a token is stored, and a token comes to be stored only when a     *)
(* login or register call succeeds; the 401 is delivered to the caller of  *)
(* the request as a rejection.                                             *)
C20_SessionClearedOn401 ==
    [][/\ Auth_logout => SessionCleared(storage')
       /\ \A r \in BagToSet(inflight) : UnauthorizedSettled(r) =>
              /\ SessionCleared(storage')
              /\ settled' = [request |-> r, outcome |-> "rejected"]
       /\ (sent' # Null /\ sent'.authorization # <<>>) => storage.token # ""
       /\ (storage.token = "" /\ storage'.token # "") =>
              \E r \in Pending("login") \cup Pending("register") : Auth_signInSettled(r, 200)]_vars

C20_Witness ==
    /\ SessionCleared(storage)
    /\ settled # Null /\ settled.outcome = "rejected"
    /\ settled.request.authorization # <<>>
    /\ route = "/login"

(* A step hands a save request to lib/api.                                 *)
SaveIssued == sent' # Null /\ sent'.kind = "save"

(* C21: on a builder page a save request is issued only while no save      *)
(* request is in flight, whichever control runs savePortfolio.             *)
C21_OneSaveInFlight ==
    [][SaveIssued => Pending("save") = {}]_vars

(* The endpoint the optimize handler of a builder page calls.              *)
OptimizeKindOf(p) ==
    CASE p = "capm" -> "optimizeCAPM"
      [] p = "fundamentals" -> "optimizeFundamentals"
      [] OTHER -> "optimize"

(* The render shows the result block: {!optimizing && result && ...} on    *)
(* ManualBuilder, {result && ...} on the others, inside the scanned list's *)
(* block on FundamentalsBuilder.                                           *)
ResultDisplayed ==
    /\ result # Null
    /\ page = "manual" => ~optimizing
    /\ page = "fundamentals" => Fund_listShown

(* The names the backend gives the stocks of a selection.                  *)
KeysOf(p, sel) == {BackendKey(OptimizeKindOf(p), sel[i]) : i \in 1..Len(sel)}

(* C22: on a builder page, a result that is displayed has weights for      *)
(* exactly the stocks that are selected.                                   *)
C22_ResultOfSelection ==
    (page \in BuilderPages /\ ResultDisplayed) =>
        DOMAIN result.weights = KeysOf(page, selectedStocks)

(* C23: a save request carries the investment amount and the risk          *)
(* tolerance of the optimize request that produced the result it saves.    *)
C23_SavedSettingsAsOptimized ==
    (sent # Null /\ sent.kind = "save") => SettingsOf(sent) = requested

(* C24: every request FundamentalsBuilder hands to lib/api (scan, optimize *)
(* and save) carries the market that is selected.                          *)
C24_RequestCarriesMarket ==
    (page = "fundamentals" /\ sent # Null) =>
        ("market" \in DOMAIN sent /\ sent.market = market)

(* C25: on FundamentalsBuilder the answer of a scan that was started for   *)
(* another market than the one now selected leaves the stock list and the  *)
(* selection empty.                                                        *)
C25_ListOfSelectedMarket ==
    [][\A r \in Pending("scanFundamentals") :
          (page = "fundamentals" /\ Answered(r) /\ r.market # market) =>
              (stocks' = <<>> /\ selectedStocks' = <<>>)]_vars

(* A request of one of the kinds is awaiting its response.                 *)
PendingAny(kinds) == \E r \in BagToSet(inflight) : r.kind \in kinds

(* C26: a busy flag is set exactly while a request of its handler is in    *)
(* flight: optimizing (building on AutoBuilder, whose run is the ASX200    *)
(* call and then the optimize call), analyzing, scanning and saving on the *)
(* builders, loading on StockAnalysis; loading on PortfolioDetail, set     *)
(* from the mount on, is set while the detail request is in flight and     *)
(* cleared when it has settled.                                            *)
C26_BusyWhileInFlight ==
    /\ page \in BuilderPages =>
          /\ optimizing <=> PendingAny(OptimizeKinds \cup {"asx200"})
          /\ analyzing <=> PendingAny({"analyzeCAPM"})
          /\ scanning <=> PendingAny({"scanFundamentals"})
          /\ saving <=> PendingAny({"save"})
    /\ page = "analysis" => (loading <=> PendingAny({"analyze"}))
    /\ page = "detail" =>
          /\ PendingAny({"detail"}) => loading
          /\ (loading /\ sent = Null) => PendingAny({"detail"}) \/ detailData = Null

=============================================================================
